---- MODULE Spec2Model ----
(***************************************************************************)
(* The Linux filesystem adapter of KindredEngine                           *)
(* (blacksmith_subsystems/src/platforms/linux/filesystem.rs): a Filesystem *)
(* maps six logical roots (RootDir) onto directories and forwards open,    *)
(* mkdir, rm, rmrf, exists, metadata and read_dir to the operating system. *)
(*                                                                         *)
(* Path strings are sequences of components; a string that starts with     *)
(* the component "/" is absolute.  A PathBuf is the sequence of names from  *)
(* the filesystem's "/" directory, which is <<>>.  The operating system is  *)
(* a tree of entries `fs`: a function from the paths that exist to a       *)
(* directory (which may be locked: mode 000) or a file with its bytes.     *)
(***************************************************************************)
EXTENDS Naturals, Sequences, FiniteSets

VARIABLES
    inst,     \* the Filesystem value: built or not, and its game_directories
    subject,  \* the logical root the caller of this run works with
    fs,       \* the operating system's tree: path -> entry
    handle,   \* the Box<VFile> the caller holds (at most one, dropped by the next call)
    last,     \* the last call: operation, arguments, the path handed to the OS, result
    trip,     \* progress of a create/write/append/write/open/read sequence on one path
    race      \* two threads inside rmrf on one shared reference, each at its own step

vars == <<inst, subject, fs, handle, last, trip, race>>

\* Longest file content, in bytes, the model lets a file grow to.
MaxLen == 2

\* The byte values written by callers.
Bytes == {1, 2}

\* The byte sequences a caller hands to write_all: nothing, or one byte.
Buffers == {<<>>} \cup {<<b>> : b \in Bytes}

RootDirs == {"WorkingDirectory", "UserConfigRoot", "UserDataRoot",
             "UserEngineConfigurationRoot", "UserLogRoot", "UserSaveRoot"}

\* The relative path strings callers pass: "", "a" and "a/f".
PathStrs == {<<>>, <<"a">>, <<"a", "f">>}

\* The process's current directory (env::current_dir()).
Cwd == <<"w">>

Front(p) == SubSeq(p, 1, Len(p) - 1)

IsPrefix(p, q) == Len(p) <= Len(q) /\ SubSeq(q, 1, Len(p)) = p

Dir(locked) == [kind |-> "dir", locked |-> locked, data |-> <<>>]

File(data) == [kind |-> "file", locked |-> FALSE, data |-> data]

\* PathBuf::push: an absolute argument replaces the buffer, a relative one is appended.
Push(buf, p) == IF p # <<>> /\ Head(p) = "/" THEN Tail(p) ELSE buf \o p

----------------------------------------------------------------------------
(* The operating system: path lookup and the calls std::fs makes.          *)

Present(f, p) == p = <<>> \/ p \in DOMAIN f

IsDirEntry(f, p) == p = <<>> \/ (p \in DOMAIN f /\ f[p].kind = "dir")

Locked(f, p) == p \in DOMAIN f /\ f[p].kind = "dir" /\ f[p].locked

Children(f, p) == {q \in DOMAIN f : Len(q) = Len(p) + 1 /\ IsPrefix(p, q)}

Subtree(f, p) == {q \in DOMAIN f : IsPrefix(p, q)}

Without(f, gone) == [q \in (DOMAIN f) \ gone |-> f[q]]

With(f, p, e) == [q \in (DOMAIN f) \cup {p} |-> IF q = p THEN e ELSE f[q]]

RECURSIVE Lookup(_, _)
\* stat(2): "OK", or the errno of the path walk.
Lookup(f, p) ==
    IF p = <<>> THEN "OK"
    ELSE LET up == Lookup(f, Front(p)) IN
         IF up # "OK" THEN up
         ELSE IF ~IsDirEntry(f, Front(p)) THEN "ENOTDIR"
         ELSE IF Locked(f, Front(p)) THEN "EACCES"
         ELSE IF p \in DOMAIN f THEN "OK"
         ELSE "ENOENT"

\* The walk to the parent of p, for a call that adds or removes the entry p.
ParentErr(f, p) ==
    LET up == Lookup(f, Front(p)) IN
    IF up # "OK" THEN up
    ELSE IF ~IsDirEntry(f, Front(p)) THEN "ENOTDIR"
    ELSE IF Locked(f, Front(p)) THEN "EACCES"
    ELSE "OK"

\* Path::exists and Path::is_dir: any error of the lookup reads as false.
PathExists(f, p) == Lookup(f, p) = "OK"

PathIsDir(f, p) == Lookup(f, p) = "OK" /\ IsDirEntry(f, p)

Done(f) == [err |-> "OK", fs |-> f]

Fail(e, f) == [err |-> e, fs |-> f]

\* mkdir(2)
SysMkdir(f, p) ==
    IF p = <<>> THEN Fail("EEXIST", f)
    ELSE IF ParentErr(f, p) # "OK" THEN Fail(ParentErr(f, p), f)
    ELSE IF p \in DOMAIN f THEN Fail("EEXIST", f)
    ELSE Done(With(f, p, Dir(FALSE)))

RECURSIVE CreateDirAll(_, _)
\* DirBuilder::new().recursive(true).create(path)
CreateDirAll(f, p) ==
    LET first == SysMkdir(f, p) IN
    IF first.err = "OK" THEN first
    ELSE IF first.err # "ENOENT"
         THEN IF PathIsDir(f, p) THEN Done(f) ELSE first
    ELSE LET up == CreateDirAll(f, Front(p)) IN
         IF up.err # "OK" THEN up
         ELSE LET again == SysMkdir(up.fs, p) IN
              IF again.err = "OK" THEN again
              ELSE IF PathIsDir(up.fs, p) THEN Done(up.fs)
              ELSE Fail(again.err, up.fs)

\* rmdir(2)
RemoveDir(f, p) ==
    IF p = <<>> THEN Fail("EBUSY", f)
    ELSE IF ParentErr(f, p) # "OK" THEN Fail(ParentErr(f, p), f)
    ELSE IF p \notin DOMAIN f THEN Fail("ENOENT", f)
    ELSE IF f[p].kind # "dir" THEN Fail("ENOTDIR", f)
    ELSE IF Children(f, p) # {} THEN Fail("ENOTEMPTY", f)
    ELSE Done(Without(f, {p}))

\* unlink(2)
RemoveFile(f, p) ==
    IF p = <<>> THEN Fail("EISDIR", f)
    ELSE IF ParentErr(f, p) # "OK" THEN Fail(ParentErr(f, p), f)
    ELSE IF p \notin DOMAIN f THEN Fail("ENOENT", f)
    ELSE IF f[p].kind = "dir" THEN Fail("EISDIR", f)
    ELSE Done(Without(f, {p}))

\* remove_dir_all::remove_dir_all, which on Linux is std::fs::remove_dir_all: the
\* path is listed and emptied recursively, so a file fails with ENOTDIR and a
\* directory that cannot be listed with EACCES.  Init locks top directories only,
\* so the failing listing is the first step and nothing has been removed by then.
RemoveDirAll(f, p) ==
    IF Lookup(f, p) # "OK" THEN Fail(Lookup(f, p), f)
    ELSE IF ~IsDirEntry(f, p) THEN Fail("ENOTDIR", f)
    ELSE IF \E q \in Subtree(f, p) : Locked(f, q) THEN Fail("EACCES", f)
    ELSE Done(Without(f, Subtree(f, p)))

\* A relative path handed to the OS as it is resolves against the process's
\* current directory; the empty string names nothing.
OsPath(p) == IF p # <<>> /\ Head(p) = "/" THEN Tail(p) ELSE Cwd \o p

\* The path of one empty component: what the empty string names to the OS.
NoPath == <<"">>

\* fs::remove_dir and fs::remove_file of a path string.
RemoveDirAt(f, str) ==
    IF str = <<>> THEN [err |-> "ENOENT", fs |-> f] ELSE RemoveDir(f, OsPath(str))

RemoveFileAt(f, str) ==
    IF str = <<>> THEN [err |-> "ENOENT", fs |-> f] ELSE RemoveFile(f, OsPath(str))

\* opendir(3)
ListDir(f, p) ==
    IF Lookup(f, p) # "OK" THEN Fail(Lookup(f, p), f)
    ELSE IF ~IsDirEntry(f, p) THEN Fail("ENOTDIR", f)
    ELSE IF Locked(f, p) THEN Fail("EACCES", f)
    ELSE Done(f)

----------------------------------------------------------------------------
(* Open files.  OpenOptions carries the five flags of std::fs::OpenOptions. *)

OpenOptions == [read : BOOLEAN, write : BOOLEAN, create : BOOLEAN,
                append : BOOLEAN, truncate : BOOLEAN]

\* VFilesystem::open, ::create and ::append, the three callers of open_with_options.
ReadOptions ==
    [read |-> TRUE, write |-> FALSE, create |-> FALSE, append |-> FALSE, truncate |-> FALSE]

CreateOptions ==
    [read |-> FALSE, write |-> TRUE, create |-> TRUE, append |-> FALSE, truncate |-> TRUE]

AppendOptions ==
    [read |-> FALSE, write |-> TRUE, create |-> TRUE, append |-> TRUE, truncate |-> FALSE]

CallerOptions == {ReadOptions, CreateOptions, AppendOptions}

NoHandle == [open |-> FALSE, path |-> <<>>, pos |-> 0, options |-> ReadOptions]

\* A faulty variant of SysOpen: the truncate flag is dropped.
SysOpenKeepsContent(f, p, o) ==
    IF ParentErr(f, p) # "OK" /\ p # <<>> THEN Fail(ParentErr(f, p), f)
    ELSE IF ~Present(f, p)
         THEN IF o.create /\ (o.write \/ o.append)
              THEN Done(With(f, p, File(<<>>)))
              ELSE Fail("ENOENT", f)
    ELSE IF IsDirEntry(f, p)
         THEN IF o.write \/ o.append \/ o.create THEN Fail("EISDIR", f)
              ELSE IF Locked(f, p) THEN Fail("EACCES", f)
              ELSE Done(f)
    ELSE Done(f)

\* open(2) with the flags of `o`.
SysOpen(f, p, o) ==
    IF ParentErr(f, p) # "OK" /\ p # <<>> THEN Fail(ParentErr(f, p), f)
    ELSE IF ~Present(f, p)
         THEN IF o.create /\ (o.write \/ o.append)
              THEN Done(With(f, p, File(<<>>)))
              ELSE Fail("ENOENT", f)
    ELSE IF IsDirEntry(f, p)
         THEN IF o.write \/ o.append \/ o.create THEN Fail("EISDIR", f)
              ELSE IF Locked(f, p) THEN Fail("EACCES", f)
              ELSE Done(f)
    ELSE IF o.truncate /\ o.write THEN Done(With(f, p, File(<<>>)))
    ELSE Done(f)

\* write(2) of `buf` at offset `at`: the bytes before `at` stay, the bytes the
\* buffer covers are replaced, the bytes behind it stay.
Overlay(data, at, buf) ==
    SubSeq(data, 1, at) \o buf \o SubSeq(data, at + Len(buf) + 1, Len(data))

----------------------------------------------------------------------------
(* The Filesystem.                                                         *)

\* GameDirectories::new: the directory backing each logical root.  The engine
\* configuration lives below the user's configuration directory.
GameDirectories ==
    [current_path |-> Cwd,
     user_config_path |-> <<"c">>,
     user_data_path |-> <<"d">>,
     engine_configuration_path |-> <<"c", "e">>,
     logs_path |-> <<"l">>,
     saves_path |-> <<"s">>]

NoInstance == [state |-> "none", game_directories |-> <<>>]

FailedInstance == [state |-> "failed", game_directories |-> <<>>]

get_root_directory(self, root_dir) ==
    CASE root_dir = "UserConfigRoot" -> self.game_directories.user_config_path
      [] root_dir = "UserDataRoot" -> self.game_directories.user_data_path
      [] root_dir = "UserEngineConfigurationRoot" ->
             self.game_directories.engine_configuration_path
      [] root_dir = "UserLogRoot" -> self.game_directories.logs_path
      [] root_dir = "WorkingDirectory" -> self.game_directories.current_path
      [] root_dir = "UserSaveRoot" -> self.game_directories.saves_path

get_absolute_path(self, root_dir, path) ==
    IF path # <<>>
    THEN Push(get_root_directory(self, root_dir), path)
    ELSE get_root_directory(self, root_dir)

\* GameError::from(io::Error)
GameResult(r) == IF r.err = "OK" THEN "Ok" ELSE "IOError"

\* What the caller could see at the path `t` before the call.
Kind(f, t) ==
    IF Lookup(f, t) = "EACCES" THEN "noaccess"
    ELSE IF Lookup(f, t) # "OK" THEN "absent"
    ELSE IF ~IsDirEntry(f, t) THEN "file"
    ELSE IF Locked(f, t) THEN "lockeddir"
    ELSE IF Children(f, t) = {} THEN "emptydir"
    ELSE "dir"

Call(op, root_dir, path, target, pre, res, err, val, again) ==
    [op |-> op, root |-> root_dir, path |-> path, target |-> target, pre |-> pre,
     res |-> res, err |-> err, val |-> val, again |-> again]

\* `again` of a call that does not repeat the call before it.
First == [is |-> FALSE, res |-> "Ok", pre |-> "absent"]

NoCall == Call("none", "WorkingDirectory", <<>>, <<>>, "absent", "Ok", "OK", "none", First)

NoTrip == [stage |-> 0, path |-> <<>>, b1 |-> <<>>, b2 |-> <<>>]

\* The threads that hold the one shared &Filesystem.
Threads == {"t1", "t2"}

\* A thread that has not called rmrf.
Idle == [pc |-> "idle", entry |-> "none", res |-> "none", err |-> "OK", todo |-> <<>>]

\* No thread has called rmrf: `pre` is what the path held when the first call began.
NoRace == [root |-> "WorkingDirectory", path |-> <<>>, pre |-> "absent",
           t |-> [th \in Threads |-> Idle]]

\* A faulty variant of mkdir_result: the directory is created without `recursive(true)`.
mkdir_result_not_recursive(self, f, root_dir, path) ==
    SysMkdir(f, get_absolute_path(self, root_dir, path))

\* Filesystem::mkdir on the tree f: [err, fs].
mkdir_result(self, f, root_dir, path) ==
    CreateDirAll(f, get_absolute_path(self, root_dir, path))

----------------------------------------------------------------------------
(* The state before construction: the environments a process may start in. *)

\* The working directory holds a directory "a" with a file "f".
WorkingTree ==
    [q \in {Cwd, <<"w", "a">>, <<"w", "a", "f">>} |->
        IF q = <<"w", "a", "f">> THEN File(<<1>>) ELSE Dir(FALSE)]

\* The user's configuration directory is missing, present, or present and locked.
ConfigTrees == {<<>>, [q \in {<<"c">>} |-> Dir(FALSE)], [q \in {<<"c">>} |-> Dir(TRUE)]}

\* The log directory is missing, present, or locked around a file "a".
LockedLogTree ==
    [q \in {<<"l">>, <<"l", "a">>} |-> IF q = <<"l">> THEN Dir(TRUE) ELSE File(<<1>>)]

LogTrees == {<<>>, [q \in {<<"l">>} |-> Dir(FALSE)], LockedLogTree}

\* The save directory is missing, or a file stands where it should be.
SaveTrees == {<<>>, [q \in {<<"s">>} |-> File(<<>>)]}

Merge(a, b) ==
    [q \in DOMAIN a \cup DOMAIN b |-> IF q \in DOMAIN a THEN a[q] ELSE b[q]]

\* A locked log directory shows through UserLogRoot alone, so the runs that start
\* with one are those of a caller working with UserLogRoot.
Init ==
    /\ inst = NoInstance
    /\ subject \in RootDirs
    /\ \E c \in ConfigTrees, l \in LogTrees, s \in SaveTrees :
           /\ l = LockedLogTree => subject = "UserLogRoot"
           /\ fs = Merge(WorkingTree, Merge(c, Merge(l, s)))
    /\ handle = NoHandle
    /\ last = NoCall
    /\ trip = NoTrip
    /\ race = NoRace

\* A faulty variant of new_result: the results of the three mkdir calls are dropped.
new_result_unchecked(f, dirs_ok) ==
    LET self == [state |-> "built", game_directories |-> GameDirectories]
        m1 == mkdir_result(self, f, "UserEngineConfigurationRoot", <<>>)
        m2 == mkdir_result(self, m1.fs, "UserLogRoot", <<>>)
        m3 == mkdir_result(self, m2.fs, "UserSaveRoot", <<>>)
    IN  IF ~dirs_ok THEN [inst |-> FailedInstance, res |-> "GameError", fs |-> f, val |-> <<>>]
        ELSE [inst |-> self, res |-> "Ok", fs |-> m3.fs, val |-> <<m1.err, m2.err, m3.err>>]

\* Filesystem::new: the directories are resolved, then the engine configuration,
\* log and save roots are created, the first failure being returned.
new_result(f, dirs_ok) ==
    LET self == [state |-> "built", game_directories |-> GameDirectories]
        m1 == mkdir_result(self, f, "UserEngineConfigurationRoot", <<>>)
        m2 == mkdir_result(self, m1.fs, "UserLogRoot", <<>>)
        m3 == mkdir_result(self, m2.fs, "UserSaveRoot", <<>>)
    IN  IF ~dirs_ok THEN [inst |-> FailedInstance, res |-> "GameError", fs |-> f, val |-> <<>>]
        ELSE IF m1.err # "OK"
             THEN [inst |-> FailedInstance, res |-> GameResult(m1), fs |-> m1.fs,
                   val |-> <<m1.err>>]
        ELSE IF m2.err # "OK"
             THEN [inst |-> FailedInstance, res |-> GameResult(m2), fs |-> m2.fs,
                   val |-> <<m1.err, m2.err>>]
        ELSE IF m3.err # "OK"
             THEN [inst |-> FailedInstance, res |-> GameResult(m3), fs |-> m3.fs,
                   val |-> <<m1.err, m2.err, m3.err>>]
        ELSE [inst |-> self, res |-> "Ok", fs |-> m3.fs, val |-> <<m1.err, m2.err, m3.err>>]

new ==
    /\ inst.state = "none"
    /\ \E dirs_ok \in BOOLEAN :
           LET r == new_result(fs, dirs_ok) IN
           /\ inst' = r.inst
           /\ fs' = r.fs
           /\ last' = Call("new", "WorkingDirectory", <<>>, <<>>, "absent", r.res,
                           IF r.res = "Ok" THEN "OK" ELSE "ERR", r.val, First)
    /\ handle' = NoHandle
    /\ trip' = NoTrip
    /\ UNCHANGED <<subject, race>>

Built == inst.state = "built"

mkdir(root_dir, path) ==
    /\ Built
    /\ LET target == get_absolute_path(inst, root_dir, path)
           r == mkdir_result(inst, fs, root_dir, path)
       IN  /\ fs' = r.fs
           /\ last' = Call("mkdir", root_dir, path, target, Kind(fs, target),
                           GameResult(r), r.err,
                           Cardinality(DOMAIN r.fs \ DOMAIN fs), First)
    /\ handle' = NoHandle
    /\ trip' = NoTrip
    /\ UNCHANGED <<inst, subject, race>>

\* Filesystem::rm: the kind of call is chosen by looking at the absolute path,
\* the call itself is handed the caller's `path`.
rm_result(self, f, root_dir, path) ==
    LET absolute_path == get_absolute_path(self, root_dir, path) IN
    IF PathIsDir(f, absolute_path)
    THEN RemoveDirAt(f, path)
    ELSE RemoveFileAt(f, path)

rm(root_dir, path) ==
    /\ Built
    /\ LET target == get_absolute_path(inst, root_dir, path)
           r == rm_result(inst, fs, root_dir, path)
       IN  /\ fs' = r.fs
           /\ last' = Call("rm", root_dir, path,
                           IF path = <<>> THEN NoPath ELSE OsPath(path),
                           Kind(fs, target), GameResult(r), r.err, "none", First)
    /\ handle' = NoHandle
    /\ trip' = NoTrip
    /\ UNCHANGED <<inst, subject, race>>

\* A faulty variant of exists_result: is_dir() is asked in place of exists().
exists_result_is_dir(self, f, root_dir, path) ==
    PathIsDir(f, get_absolute_path(self, root_dir, path))

exists_result(self, f, root_dir, path) ==
    PathExists(f, get_absolute_path(self, root_dir, path))

\* A faulty variant of rmrf_result: the tree is removed without asking whether it exists.
rmrf_result_unchecked(self, f, root_dir, path) ==
    RemoveDirAll(f, get_absolute_path(self, root_dir, path))

rmrf_result(self, f, root_dir, path) ==
    IF exists_result(self, f, root_dir, path)
    THEN RemoveDirAll(f, get_absolute_path(self, root_dir, path))
    ELSE Done(f)

rmrf(root_dir, path) ==
    /\ Built
    /\ LET target == get_absolute_path(inst, root_dir, path)
           r == rmrf_result(inst, fs, root_dir, path)
           again == IF last.op = "rmrf" /\ last.root = root_dir /\ last.path = path
                    THEN [is |-> TRUE, res |-> last.res, pre |-> last.pre]
                    ELSE First
       IN  /\ fs' = r.fs
           /\ last' = Call("rmrf", root_dir, path, target, Kind(fs, target),
                           GameResult(r), r.err, "none", again)
    /\ handle' = NoHandle
    /\ trip' = NoTrip
    /\ UNCHANGED <<inst, subject, race>>

exists(root_dir, path) ==
    /\ Built
    /\ LET target == get_absolute_path(inst, root_dir, path) IN
       last' = Call("exists", root_dir, path, target, Kind(fs, target), "Ok", "OK",
                    exists_result(inst, fs, root_dir, path), First)
    /\ handle' = NoHandle
    /\ trip' = NoTrip
    /\ UNCHANGED <<inst, subject, fs, race>>

\* A faulty variant of Metadata: is_file forwards to is_dir.
MetadataFileIsDir(e) ==
    [is_dir |-> e.kind = "dir", is_file |-> e.kind = "dir", len |-> Len(e.data),
     is_read_only |-> e.locked]

\* fs::Metadata behind VMetadata: is_dir, is_file, len, permissions().readonly().
Metadata(e) ==
    [is_dir |-> e.kind = "dir", is_file |-> e.kind = "file", len |-> Len(e.data),
     is_read_only |-> e.locked]

Entry(f, p) == IF p = <<>> THEN Dir(FALSE) ELSE f[p]

metadata_result(self, f, root_dir, path) ==
    LET absolute_path == get_absolute_path(self, root_dir, path) IN
    IF Lookup(f, absolute_path) = "OK"
    THEN [err |-> "OK", val |-> Metadata(Entry(f, absolute_path))]
    ELSE [err |-> Lookup(f, absolute_path), val |-> "none"]

metadata(root_dir, path) ==
    /\ Built
    /\ LET target == get_absolute_path(inst, root_dir, path)
           r == metadata_result(inst, fs, root_dir, path)
       IN  last' = Call("metadata", root_dir, path, target, Kind(fs, target),
                        GameResult(r), r.err, r.val, First)
    /\ handle' = NoHandle
    /\ trip' = NoTrip
    /\ UNCHANGED <<inst, subject, fs, race>>

\* A faulty variant of read_dir_result: the listing is asked for without the is_dir() test.
read_dir_result_unchecked(self, f, root_dir, path) ==
    LET absolute_path == get_absolute_path(self, root_dir, path) IN
    IF ListDir(f, absolute_path).err = "OK"
    THEN [res |-> "Ok", err |-> "OK",
          val |-> {q[Len(q)] : q \in Children(f, absolute_path)}]
    ELSE [res |-> "IOError", err |-> ListDir(f, absolute_path).err, val |-> "none"]

\* Filesystem::read_dir: [res, err, val], val the names the ReadDir yields.
read_dir_result(self, f, root_dir, path) ==
    LET absolute_path == get_absolute_path(self, root_dir, path) IN
    IF PathIsDir(f, absolute_path)
    THEN IF ListDir(f, absolute_path).err = "OK"
         THEN [res |-> "Ok", err |-> "OK",
               val |-> {q[Len(q)] : q \in Children(f, absolute_path)}]
         ELSE [res |-> "IOError", err |-> ListDir(f, absolute_path).err, val |-> "none"]
    ELSE [res |-> "FileSystemError", err |-> "OK", val |-> "none"]

read_dir(root_dir, path) ==
    /\ Built
    /\ LET target == get_absolute_path(inst, root_dir, path)
           r == read_dir_result(inst, fs, root_dir, path)
       IN  last' = Call("read_dir", root_dir, path, target, Kind(fs, target),
                        r.res, r.err, r.val, First)
    /\ handle' = NoHandle
    /\ trip' = NoTrip
    /\ UNCHANGED <<inst, subject, fs, race>>

open_with_options_result(self, f, root_dir, path, open_options) ==
    SysOpen(f, get_absolute_path(self, root_dir, path), open_options)

\* The create/append/open sequence the caller is in after this open.
TripAfterOpen(path, open_options) ==
    IF open_options = CreateOptions
    THEN [stage |-> 1, path |-> path, b1 |-> <<>>, b2 |-> <<>>]
    ELSE IF open_options = AppendOptions /\ trip.stage = 2 /\ trip.path = path
    THEN [trip EXCEPT !.stage = 3]
    ELSE IF open_options = ReadOptions /\ trip.stage = 4 /\ trip.path = path
    THEN [trip EXCEPT !.stage = 5]
    ELSE NoTrip

open_with_options(root_dir, path, open_options) ==
    /\ Built
    /\ LET target == get_absolute_path(inst, root_dir, path)
           r == open_with_options_result(inst, fs, root_dir, path, open_options)
       IN  /\ fs' = r.fs
           /\ handle' = IF r.err = "OK"
                        THEN [open |-> TRUE, path |-> target, pos |-> 0,
                              options |-> open_options]
                        ELSE NoHandle
           /\ trip' = IF r.err = "OK" THEN TripAfterOpen(path, open_options) ELSE NoTrip
           /\ last' = Call("open", root_dir, path, target, Kind(fs, target),
                           GameResult(r), r.err, open_options, First)
    /\ UNCHANGED <<inst, subject, race>>

\* VFile (std::fs::File) write_all: at the end of the file in append mode, at the
\* handle's position otherwise.
write_all(buf) ==
    /\ handle.open
    /\ LET writable == handle.options.write \/ handle.options.append
           data == fs[handle.path].data
           at == IF handle.options.append THEN Len(data) ELSE handle.pos
           ok == writable /\ fs[handle.path].kind = "file"
       IN  /\ ok => Len(Overlay(data, at, buf)) <= MaxLen
           /\ fs' = IF ok THEN With(fs, handle.path, File(Overlay(data, at, buf))) ELSE fs
           /\ handle' = IF ok THEN [handle EXCEPT !.pos = at + Len(buf)] ELSE handle
           /\ trip' = IF ok /\ trip.stage = 1 THEN [trip EXCEPT !.stage = 2, !.b1 = buf]
                      ELSE IF ok /\ trip.stage = 3
                      THEN [trip EXCEPT !.stage = 4, !.b2 = buf]
                      ELSE NoTrip
           /\ last' = Call("write", last.root, last.path, handle.path, "file",
                           IF ok THEN "Ok" ELSE "IOError",
                           IF ok THEN "OK" ELSE "EBADF", buf, First)
    /\ UNCHANGED <<inst, subject, race>>

\* VFile read to the end, from the handle's position.
read_to_end ==
    /\ handle.open
    /\ LET e == Entry(fs, handle.path)
           ok == handle.options.read /\ e.kind = "file"
       IN  /\ handle' = IF ok THEN [handle EXCEPT !.pos = Len(e.data)] ELSE handle
           /\ trip' = IF ok /\ trip.stage = 5 THEN [trip EXCEPT !.stage = 6] ELSE NoTrip
           /\ last' = Call("read", last.root, last.path, handle.path, "file",
                           IF ok THEN "Ok" ELSE "IOError",
                           IF ~handle.options.read THEN "EBADF"
                           ELSE IF ok THEN "OK" ELSE "EISDIR",
                           IF ok THEN SubSeq(e.data, handle.pos + 1, Len(e.data)) ELSE <<>>,
                           First)
    /\ UNCHANGED <<inst, subject, fs, race>>

Next ==
    \/ new
    \/ \E path \in PathStrs : mkdir(subject, path)
    \/ \E path \in PathStrs : rm(subject, path)
    \/ \E path \in PathStrs : rmrf(subject, path)
    \/ \E path \in PathStrs : exists(subject, path)
    \/ \E path \in PathStrs : metadata(subject, path)
    \/ \E path \in PathStrs : read_dir(subject, path)
    \/ \E path \in PathStrs, open_options \in CallerOptions :
           open_with_options(subject, path, open_options)
    \/ \E buf \in Buffers : write_all(buf)
    \/ read_to_end

Spec == Init /\ [][Next]_vars

----------------------------------------------------------------------------
(* rmrf called by two threads on one &Filesystem.  The adapter takes no     *)
(* lock, so the calls interleave at the system calls they make: the        *)
(* lookup of `exists`, then, inside remove_dir_all, the listing of the     *)
(* tree and one unlink or rmdir for each entry listed.                     *)

\* A faulty variant of rmrf_entry: the removal is started without the check.
rmrf_entry_unchecked(self, f, root_dir, path) == "remove_dir_all"

\* The branch rmrf takes on the answer of `exists`.
rmrf_entry(self, f, root_dir, path) ==
    IF exists_result(self, f, root_dir, path) THEN "remove_dir_all" ELSE "Ok"

RECURSIVE Walk(_, _)
RECURSIVE WalkAll(_, _)
\* The entries of the tree at p in the order remove_dir_all removes them: the
\* children of a directory before the directory.  Every listing of a directory
\* gives its entries in the same order.
Walk(f, p) == WalkAll(f, Children(f, p)) \o <<p>>

WalkAll(f, S) ==
    IF S = {} THEN <<>>
    ELSE LET c == CHOOSE x \in S : TRUE IN Walk(f, c) \o WalkAll(f, S \ {c})

\* The start of remove_dir_all: the lstat of the path and the listing of its tree.
RemoveDirAllList(f, p) ==
    IF Lookup(f, p) # "OK" THEN [err |-> Lookup(f, p), todo |-> <<>>]
    ELSE IF ~IsDirEntry(f, p) THEN [err |-> "ENOTDIR", todo |-> <<>>]
    ELSE IF \E q \in Subtree(f, p) : Locked(f, q) THEN [err |-> "EACCES", todo |-> <<>>]
    ELSE [err |-> "OK", todo |-> Walk(f, p)]

\* One step of remove_dir_all: the unlink or rmdir of the entry q it listed.
RemoveListed(f, q) ==
    IF q \in DOMAIN f /\ f[q].kind # "dir" THEN RemoveFile(f, q) ELSE RemoveDir(f, q)

\* No thread has called rmrf yet: the tree is still being prepared.
Quiet == \A th \in Threads : race.t[th].pc = "idle"

Returned(th, res, err) ==
    [race.t[th] EXCEPT !.pc = "done", !.res = res, !.err = err, !.todo = <<>>]

\* The call and its first step, `self.exists(root_dir, path)`: a path that is not
\* there ends the call with Ok(()).  Both threads are given the same path.
rmrf_call(th, root_dir, path) ==
    /\ Built
    /\ race.t[th].pc = "idle"
    /\ ~Quiet => (race.root = root_dir /\ race.path = path)
    /\ LET target == get_absolute_path(inst, root_dir, path)
           found == exists_result(inst, fs, root_dir, path)
           seen == [race.t[th] EXCEPT !.entry = IF found THEN "present" ELSE "absent"]
           branch == rmrf_entry(inst, fs, root_dir, path)
           now == IF branch = "Ok"
                  THEN [seen EXCEPT !.pc = "done", !.res = "Ok"]
                  ELSE [seen EXCEPT !.pc = "remove_dir_all"]
       IN  race' = [root |-> root_dir, path |-> path,
                    pre |-> IF Quiet THEN Kind(fs, target) ELSE race.pre,
                    t |-> [race.t EXCEPT ![th] = now]]
    /\ UNCHANGED <<inst, subject, fs, handle, last, trip>>

\* remove_dir_all begins: a path that is gone by now, a file and a directory that
\* cannot be listed end the call with the error.
rmrf_list(th) ==
    /\ race.t[th].pc = "remove_dir_all"
    /\ LET target == get_absolute_path(inst, race.root, race.path)
           r == RemoveDirAllList(fs, target)
       IN  race' = [race EXCEPT !.t[th] =
                       IF r.err # "OK"
                       THEN Returned(th, GameResult(Fail(r.err, fs)), r.err)
                       ELSE [@ EXCEPT !.pc = "walk", !.todo = r.todo]]
    /\ UNCHANGED <<inst, subject, fs, handle, last, trip>>

\* remove_dir_all removes the next entry of its listing; after the last one,
\* the path itself, the call returns Ok(()).
rmrf_remove(th) ==
    /\ race.t[th].pc = "walk"
    /\ LET q == Head(race.t[th].todo)
           rest == Tail(race.t[th].todo)
           r == RemoveListed(fs, q)
       IN  /\ r.err = "OK"
           /\ fs' = r.fs
           /\ race' = [race EXCEPT !.t[th] =
                          IF rest = <<>> THEN Returned(th, GameResult(r), "OK")
                          ELSE [@ EXCEPT !.todo = rest]]
    /\ UNCHANGED <<inst, subject, handle, last, trip>>

\* The entry listed is not there any more: the other call removed it.  The
\* standard library of the build decides what follows: the error ends the call
\* (io::Error, hence GameError::IOError) ...
rmrf_remove_fails(th) ==
    /\ race.t[th].pc = "walk"
    /\ LET r == RemoveListed(fs, Head(race.t[th].todo))
       IN  /\ r.err # "OK"
           /\ race' = [race EXCEPT !.t[th] = Returned(th, GameResult(r), r.err)]
    /\ UNCHANGED <<inst, subject, fs, handle, last, trip>>

\* ... or an entry that is not found counts as removed and the walk goes on.
rmrf_remove_skips(th) ==
    /\ race.t[th].pc = "walk"
    /\ LET rest == Tail(race.t[th].todo)
           r == RemoveListed(fs, Head(race.t[th].todo))
       IN  /\ r.err = "ENOENT"
           /\ race' = [race EXCEPT !.t[th] =
                          IF rest = <<>> THEN Returned(th, "Ok", "OK")
                          ELSE [@ EXCEPT !.todo = rest]]
    /\ UNCHANGED <<inst, subject, fs, handle, last, trip>>

\* The caller prepares the tree, then the two threads call rmrf on one path.
NextRace ==
    \/ Quiet /\ new
    \/ Quiet /\ \E path \in PathStrs : mkdir(subject, path)
    \/ Quiet /\ \E path \in PathStrs : open_with_options(subject, path, CreateOptions)
    \/ \E th \in Threads, path \in PathStrs : rmrf_call(th, subject, path)
    \/ \E th \in Threads : rmrf_list(th)
    \/ \E th \in Threads : rmrf_remove(th)
    \/ \E th \in Threads : rmrf_remove_fails(th)
    \/ \E th \in Threads : rmrf_remove_skips(th)

SpecRace == Init /\ [][NextRace]_vars

----------------------------------------------------------------------------
(* Properties.  `last` is the call that led to the state, `fs` the tree it  *)
(* left; in an action formula the unprimed `fs` is the tree before it.      *)

\* The entries on the way to t can all be searched.
Accessible(f, t) == \A i \in 1..(Len(t) - 1) : ~Locked(f, SubSeq(t, 1, i))

Resolved(c) == get_absolute_path(inst, c.root, c.path)

ExistsNow(c) == exists_result(inst, fs, c.root, c.path)

C2_RmRemovesTheResolvedEntry ==
    [][(last'.op = "rm" /\ last'.res = "Ok") =>
           /\ Resolved(last') \in DOMAIN fs
           /\ fs' = Without(fs, {Resolved(last')})
           /\ ~exists_result(inst, fs', last'.root, last'.path)]_vars

\* C3, as stated: on a non-empty directory rm fails with an IOError and changes
\* nothing while rmrf succeeds and leaves exists false; rm fails with an IOError
\* on an entry that does not exist.
C3_RmRefusesRmrfRemoves ==
    [][/\ (last'.op = "rm" /\ last'.pre = "dir") =>
              last'.res = "IOError" /\ fs' = fs
       /\ (last'.op = "rmrf" /\ last'.pre = "dir") =>
              last'.res = "Ok" /\ ~exists_result(inst, fs', last'.root, last'.path)
       /\ (last'.op = "rm" /\ last'.pre = "absent") =>
              last'.res = "IOError"]_vars

Prefixes(t) == {SubSeq(t, 1, i) : i \in 1..Len(t)}

\* C4: a successful mkdir(root, p) leaves a directory at the resolved path and at
\* each of its ancestors, adds directories on that path only and changes no other
\* entry, so that exists(root, p) is true; on a directory that is already there
\* it succeeds and the tree stays as it was.
C4_MkdirCreatesWithAncestors ==
    [][last'.op = "mkdir" =>
           /\ last'.res = "Ok" =>
                  /\ exists_result(inst, fs', last'.root, last'.path)
                  /\ \A q \in Prefixes(Resolved(last')) :
                         q \in DOMAIN fs' /\ fs'[q].kind = "dir"
                  /\ \A q \in DOMAIN fs : q \in DOMAIN fs' /\ fs'[q] = fs[q]
                  /\ (DOMAIN fs') \ (DOMAIN fs) \subseteq Prefixes(Resolved(last'))
           /\ last'.pre \in {"emptydir", "dir", "lockeddir"} =>
                  last'.res = "Ok" /\ fs' = fs]_vars

\* C4 witness: mkdir(root, "a/f") that had to create the root, "a" and "a/f".
C4_Witness ==
    /\ last.op = "mkdir"
    /\ last.res = "Ok"
    /\ last.path = <<"a", "f">>
    /\ last.val = Len(Resolved(last))
    /\ ExistsNow(last)

\* C5: read_dir fails with a FileSystemError when the resolved path is a file (and
\* when nothing is there); an IOError comes only from a directory whose listing
\* fails; a directory that can be listed yields its entries.
C5_ReadDirErrors ==
    last.op = "read_dir" =>
        /\ last.pre = "file" => last.res = "FileSystemError"
        /\ last.pre \in {"absent", "noaccess"} => last.res = "FileSystemError"
        /\ last.res = "IOError" => last.pre = "lockeddir" /\ IsDirEntry(fs, last.target)
        /\ last.pre \in {"emptydir", "dir"} =>
               /\ last.res = "Ok"
               /\ last.val = {q[Len(q)] : q \in Children(fs, Resolved(last))}
               /\ (last.pre = "emptydir") = (last.val = {})

\* C5 witness: read_dir of a regular file.
C5_Witness ==
    /\ last.op = "read_dir"
    /\ last.pre = "file"
    /\ last.res = "FileSystemError"

\* C6: create(root, p) and a write of B1, append(root, p) and a write of B2, then
\* open(root, p) and a read to the end, one after the other and all successful,
\* read exactly B1 followed by B2, whatever p held before.
C6_WriteThenReadRoundTrip ==
    trip.stage = 6 =>
        /\ last.op = "read"
        /\ last.res = "Ok"
        /\ last.val = trip.b1 \o trip.b2
        /\ fs[handle.path].data = trip.b1 \o trip.b2

\* C6 witness: a round trip of two different bytes has been read back.
C6_Witness ==
    /\ trip.stage = 6
    /\ Len(trip.b1) = 1
    /\ Len(trip.b2) = 1
    /\ trip.b1 # trip.b2
    /\ last.val = trip.b1 \o trip.b2

\* C7: exists never fails and changes nothing: it returns a boolean, TRUE exactly
\* when an entry is present at the resolved path and can be reached (an entry
\* behind a directory that cannot be searched reports FALSE), and the tree is as
\* it was.
C7_ExistsTotalAndPure ==
    [][last'.op = "exists" =>
           /\ fs' = fs
           /\ inst' = inst
           /\ last'.res = "Ok"
           /\ last'.val \in BOOLEAN
           /\ last'.val = (/\ Present(fs, Resolved(last'))
                           /\ Accessible(fs, Resolved(last')))]_vars

\* C7 witness: exists answered FALSE for an entry that is there but out of reach.
C7_Witness ==
    /\ last.op = "exists"
    /\ last.val = FALSE
    /\ Present(fs, Resolved(last))
    /\ last.pre = "noaccess"

EagerRoots == {"UserEngineConfigurationRoot", "UserLogRoot", "UserSaveRoot"}

\* C8: when new returns Ok the engine-configuration, log and save roots exist and
\* the instance is built; when one of its mkdir calls fails, new returns that
\* error and there is no instance.
C8_NewCreatesEagerRoots ==
    last.op = "new" =>
        /\ (last.res = "Ok") = (inst.state = "built")
        /\ last.res = "Ok" =>
               \A r \in EagerRoots : exists_result(inst, fs, r, <<>>)
        /\ (\E i \in DOMAIN last.val : last.val[i] # "OK") =>
               last.res # "Ok" /\ inst.state = "failed"

\* C8 witness: new returned Ok and the three roots are directories.
C8_Witness ==
    /\ last.op = "new"
    /\ last.res = "Ok"
    /\ \A r \in EagerRoots : PathIsDir(fs, get_root_directory(inst, r))

\* C9: metadata succeeds exactly when an entry is present at the resolved path
\* and can be reached, and fails with an IOError otherwise; of a file with bytes
\* in it the snapshot says is_file, not is_dir, and a length above 0 (the file's
\* length); no snapshot says is_file and is_dir.
C9_MetadataSnapshot ==
    last.op = "metadata" =>
        /\ (last.res = "Ok") =
               (Present(fs, Resolved(last)) /\ Accessible(fs, Resolved(last)))
        /\ last.res # "Ok" => last.res = "IOError"
        /\ last.res = "Ok" =>
               /\ ~(last.val.is_file /\ last.val.is_dir)
               /\ last.val.is_dir = IsDirEntry(fs, Resolved(last))
        /\ (last.res = "Ok" /\ last.pre = "file"
                /\ fs[Resolved(last)].data # <<>>) =>
               /\ last.val.is_file
               /\ ~last.val.is_dir
               /\ last.val.len > 0
               /\ last.val.len = Len(fs[Resolved(last)].data)

\* C9 witness: the metadata of a file with bytes in it.
C9_Witness ==
    /\ last.op = "metadata"
    /\ last.res = "Ok"
    /\ last.pre = "file"
    /\ last.val.len > 0

RootedOps == {"mkdir", "rm", "rmrf", "exists", "metadata", "read_dir", "open"}

\* C10, as stated: the path every operation hands to the OS is the root's
\* directory followed by the path string (the root's directory itself for the
\* empty string), so the root's directory is a prefix of it; and the directories
\* of the roots are those set at construction.
C10_PathResolution ==
    /\ inst.state = "built" => inst.game_directories = GameDirectories
    /\ last.op \in RootedOps =>
           /\ last.target = get_root_directory(inst, last.root) \o last.path
           /\ IsPrefix(get_root_directory(inst, last.root), last.target)

Ended(th) == race.t[th].pc = "done"

BothReturned == \A th \in Threads : Ended(th)

RacedPathExists == exists_result(inst, fs, race.root, race.path)

\* What every call of the two satisfies when it has returned: it ended in Ok or
\* in an IOError, and a call whose entry check found the path absent ended in Ok.
EachCallEnds ==
    \A th \in Threads :
        Ended(th) =>
            /\ race.t[th].res \in {"Ok", "IOError"}
            /\ race.t[th].entry = "absent" => race.t[th].res = "Ok"

====
